---- MODULE Spec2Model ----
(***************************************************************************)
(* Order execution and lifecycle engine of hyperliquid-sentiment-trader.   *)
(*                                                                         *)
(* Two stores exist in the source and are modelled side by side:           *)
(*   - the raw-SQL store execution.sqlite (execution/schema.py), written   *)
(*     by the manual intake (execution/api_trade.py) and by the executor   *)
(*     loops (execution/executor.py, scripts/run_executor.py);             *)
(*   - the ORM store of execution/lifecycle.py, written by                 *)
(*     Lifecycle.submit/refresh/cancel and resume_inflight_on_startup.     *)
(*                                                                         *)
(* Numbers are integers: prices and sizes are drawn from values on which   *)
(* the source's float arithmetic is exact.  An optional value (SQL NULL,   *)
(* Python None) is a sequence of length 0 or 1.                            *)
(***************************************************************************)
EXTENDS Integers, Sequences, FiniteSets, TLC

VARIABLES
    now,          \* wall clock of the raw-SQL store, in minutes
    order_plans,  \* table order_plans of execution.sqlite: a set of rows
    exec_events,  \* table exec_events of execution.sqlite: rows in insert order
    resp,         \* the response of the latest trade_manual call (<<>> before any)
    intake,       \* per caller: the trade_manual call that is past its cooldown
                  \* query and has not inserted yet
    riskIn,       \* arguments of the check_risk call under study
    riskOut,      \* its outcome (<<>> before the call)
    lcStatus,     \* ORM store: order_plans.status per plan id ("none": no row)
    lcEvents,     \* ORM store: exec_events per plan id, in commit order
    lcClock,      \* ORM store: number of timestamps handed out so far
    sess,         \* per API session: the Lifecycle call it is in
    resume,       \* resume_inflight_on_startup: its position
    db,           \* execution.sqlite: the columns its two tables have
    daily_limit,  \* Executor.daily_limit
    broker,       \* which Broker the Executor built: "sim" or "hl"
    exe,          \* the executor process: its position in the loop body
    placed,       \* every place_market call made so far, in order
    raised        \* every exception raised, and every stop of the process, while
                  \* a plan was being processed

storeVars == <<now, order_plans, exec_events>>
intakeVars == <<storeVars, resp, intake>>
riskVars == <<riskIn, riskOut>>
lcVars == <<lcStatus, lcEvents, lcClock, sess, resume>>
exeVars == <<db, daily_limit, broker, exe, placed, raised>>

None == <<>>
Some(x) == <<x>>

(***************************************************************************)
(* Bounds of the model.                                                    *)
(***************************************************************************)
MaxTime == 5
MaxPlans == 2
MaxRiskQty == 2
MaxRiskUsed == 2
MaxLcEvents == 3
MaxPlaced == 3

(***************************************************************************)
(* Program constants.                                                      *)
(***************************************************************************)
DedupeWindow == 5
QtySigDigits == 12
SlSigDigits == 10

----------------------------------------------------------------------------
(***************************************************************************)
(* Input domains of the manual intake.                                     *)
(***************************************************************************)

\* A text is its stripped content plus whether it carries surrounding blanks.
Text(t, padded) == [text |-> t, pad |-> padded]

UserIds == {Text("u1", FALSE)}
SignalRefs == {Text("s1", FALSE), Text("s1", TRUE), Text("s2", FALSE)}

\* A symbol as typed by the client: base coin, letter case, quote suffix.
RawSymbols == { [base |-> "BTC", lower |-> TRUE, suffix |-> ""] }

Sides == {"buy", "hold"}
SizeTypes == {"fixed_usd"}
SizeValues == {120}
Leverages == {1}
SlTypes == {"percent"}
SlPercents == {Some(50)}                \* sl_value as a percentage
IntakeMarks == {Some(20), Some(40)}      \* result of feed.mark(symbol)

ManualReq ==
    [user_id : UserIds, signal_ref : SignalRefs, symbol : RawSymbols,
     side : Sides, size_type : SizeTypes, size_value : SizeValues,
     leverage : Leverages, sl_type : SlTypes, sl_value : SlPercents]

----------------------------------------------------------------------------
(***************************************************************************)
(* Idempotency key derivation (api_trade.py).                              *)
(***************************************************************************)

Strip(t) == [t EXCEPT !.pad = FALSE]

_norm_symbol(s) ==
    [base   |-> s.base,
     lower  |-> FALSE,
     suffix |-> IF s.suffix \in {"USDT", "USDC", "USD"} THEN s.suffix ELSE "USDT"]

RECURSIVE Pow10(_)
Pow10(n) == IF n = 0 THEN 1 ELSE 10 * Pow10(n - 1)

RECURSIVE NumDigits(_)
NumDigits(x) == IF x < 10 THEN 1 ELSE 1 + NumDigits(x \div 10)

\* "%.<d>g" of a non-negative integer: d significant digits, rounded.
FormatG(x, d) ==
    IF NumDigits(x) <= d THEN x
    ELSE LET unit == Pow10(NumDigits(x) - d)
         IN  ((x + unit \div 2) \div unit) * unit

FormatOpt(v, d) == IF v = None THEN None ELSE Some(FormatG(v[1], d))

\* sha256 of the canonical JSON is taken to be collision free: the key is the
\* canonical payload itself.
_mk_idempotency_key(user_id, symbol, side, qty, sl_price, signal_ref) ==
    [user_id    |-> Strip(user_id),
     symbol     |-> _norm_symbol(symbol),
     side       |-> side,
     qty        |-> FormatG(qty, QtySigDigits),
     sl_price   |-> FormatOpt(sl_price, SlSigDigits),
     signal_ref |-> Strip(signal_ref)]

----------------------------------------------------------------------------
(***************************************************************************)
(* trade_manual (api_trade.py).                                            *)
(***************************************************************************)

Truthy(v) == v # None /\ v[1] # 0

IntakeQty(req, mark) == (req.size_value * req.leverage) \div mark

IntakeSl(req, mark) ==
    IF req.sl_type = "percent" /\ Truthy(req.sl_value)
    THEN IF req.side = "buy"
         THEN Some((mark * (100 - req.sl_value[1])) \div 100)
         ELSE Some((mark * (100 + req.sl_value[1])) \div 100)
    ELSE None

IntakeKey(req, mark) ==
    _mk_idempotency_key(req.user_id, _norm_symbol(req.symbol), req.side,
                        IntakeQty(req, mark), IntakeSl(req, mark), req.signal_ref)

\* The cooldown query with a window one minute short.
DupRows_ShortWindow(req, plans, t) ==
    { r \in plans : /\ r.user_id = req.user_id
                    /\ r.signal_ref = req.signal_ref
                    /\ r.source = "manual"
                    /\ r.created_at > t - DedupeWindow + 1 }

\* The cooldown query: manual plans of the same user and signal created less
\* than DedupeWindow minutes ago.
DupRows(req, plans, t) ==
    { r \in plans : /\ r.user_id = req.user_id
                    /\ r.signal_ref = req.signal_ref
                    /\ r.source = "manual"
                    /\ r.created_at > t - DedupeWindow }

RowsByKey(key, plans) == { r \in plans : r.idempotency_key = key }

PlanIds(plans) == { r.id : r \in plans }

\* uuid4(): an id no row carries.
FreshId(plans) == CHOOSE i \in 1..(Cardinality(plans) + 1) : i \notin PlanIds(plans)

NewPlanRow(id, req, mark, t) ==
    [id              |-> id,
     user_id         |-> req.user_id,
     signal_ref      |-> req.signal_ref,
     symbol          |-> _norm_symbol(req.symbol),
     side            |-> req.side,
     qty             |-> IntakeQty(req, mark),
     source          |-> "manual",
     status          |-> "created",
     sl_price        |-> IntakeSl(req, mark),
     created_at      |-> t,
     updated_at      |-> t,
     idempotency_key |-> IntakeKey(req, mark),
     broker_order_id |-> None]

\* An insert that ignores the unique index on idempotency_key.
UpsertPlan_NoConflictClause(row, plans) == plans \cup {row}

\* INSERT ... ON CONFLICT(idempotency_key) DO UPDATE SET updated_at.
UpsertPlan(row, plans) ==
    IF RowsByKey(row.idempotency_key, plans) = {}
    THEN plans \cup {row}
    ELSE { IF r.idempotency_key = row.idempotency_key
           THEN [r EXCEPT !.updated_at = row.updated_at]
           ELSE r : r \in plans }

\* The intent a request stands for: the fields the key is derived from, as
\* trade_manual passes them to _mk_idempotency_key.
Intent(req, mark) ==
    [user_id    |-> req.user_id,
     symbol     |-> _norm_symbol(req.symbol),
     side       |-> req.side,
     qty        |-> IntakeQty(req, mark),
     sl_price   |-> IntakeSl(req, mark),
     signal_ref |-> req.signal_ref]

KeyOf(i) ==
    _mk_idempotency_key(i.user_id, i.symbol, i.side, i.qty, i.sl_price, i.signal_ref)

\* What the latest call answered, with the intent it was about and its time.
Response(req, mark, id, cooldown) ==
    Some([ok |-> TRUE, plan_id |-> id, cooldown |-> cooldown,
          intent |-> Some(Intent(req, mark)), at |-> now])

Refused(req, code) ==
    Some([ok |-> FALSE, plan_id |-> code, cooldown |-> FALSE,
          intent |-> None, at |-> now])

\* A request refused before the store is touched: bad side, or a mark that
\* is not positive.
TradeManualRefused(req, m) ==
    /\ \/ req.side \notin {"buy", "sell"}
       \/ req.size_type # "fixed_usd"
       \/ m[1] <= 0
    /\ resp' = Refused(req, 400)
    /\ UNCHANGED <<storeVars, intake, riskVars, lcVars, exeVars>>

\* The cooldown branch: a recent plan of the same user and signal exists.
TradeManualCooldown(req, m) ==
    /\ req.side \in {"buy", "sell"}
    /\ req.size_type = "fixed_usd"
    /\ m[1] > 0
    /\ DupRows(req, order_plans, now) # {}
    /\ LET row == RowsByKey(IntakeKey(req, m[1]), order_plans)
       IN  \E d \in DupRows(req, order_plans, now) :
             \E k \in (IF row # {} THEN row ELSE {d}) :
               resp' = Response(req, m[1], k.id, TRUE)
    /\ UNCHANGED <<storeVars, intake, riskVars, lcVars, exeVars>>

\* The insert branch: upsert on the key, then read the id back by key.
TradeManualInsert(req, m) ==
    /\ req.side \in {"buy", "sell"}
    /\ req.size_type = "fixed_usd"
    /\ m[1] > 0
    /\ DupRows(req, order_plans, now) = {}
    /\ LET row   == NewPlanRow(FreshId(order_plans), req, m[1], now)
           after == UpsertPlan(row, order_plans)
       IN  /\ Cardinality(after) <= MaxPlans
           /\ order_plans' = after
           /\ \E k \in RowsByKey(row.idempotency_key, after) :
                resp' = Response(req, m[1], k.id, FALSE)
    /\ UNCHANGED <<now, exec_events, intake, riskVars, lcVars, exeVars>>

\* Two requests at a time: each has its own connection, and nothing joins
\* the cooldown query and the INSERT of one call into one transaction.
Callers == {"c1", "c2"}
IdleCall == [pc |-> "idle", req |-> None, mark |-> None]

\* trade_manual up to the cooldown query, which finds no recent plan.
TradeManualChecks(c, req, m) ==
    /\ intake[c].pc = "idle"
    /\ req.side \in {"buy", "sell"}
    /\ req.size_type = "fixed_usd"
    /\ m[1] > 0
    /\ DupRows(req, order_plans, now) = {}
    /\ intake' = [intake EXCEPT ![c] = [pc |-> "insert", req |-> Some(req), mark |-> m]]
    /\ UNCHANGED <<storeVars, resp, riskVars, lcVars, exeVars>>

\* The rest of that call: upsert on the key, commit, read the id back.
TradeManualInserts(c) ==
    /\ intake[c].pc = "insert"
    /\ LET req   == intake[c].req[1]
           mark  == intake[c].mark[1]
           row   == NewPlanRow(FreshId(order_plans), req, mark, now)
           after == UpsertPlan(row, order_plans)
       IN  /\ Cardinality(after) <= MaxPlans
           /\ order_plans' = after
           /\ \E k \in RowsByKey(row.idempotency_key, after) :
                resp' = Response(req, mark, k.id, FALSE)
    /\ intake' = [intake EXCEPT ![c] = IdleCall]
    /\ UNCHANGED <<now, exec_events, riskVars, lcVars, exeVars>>

trade_manual ==
    \E req \in ManualReq, m \in IntakeMarks :
        \/ TradeManualRefused(req, m)
        \/ TradeManualCooldown(req, m)
        \/ TradeManualInsert(req, m)

Tick ==
    /\ now < MaxTime
    /\ now' = now + 1
    /\ UNCHANGED <<order_plans, exec_events, resp, intake, riskVars, lcVars, exeVars>>

----------------------------------------------------------------------------
(***************************************************************************)
(* Risk gate (risk.py).                                                    *)
(***************************************************************************)

RiskOk == "ok"
QtyMessage == "Qty <= 0"
LimitMessage == "Daily notional limit exceeded"

\* check_risk: RiskOk when it returns, else the text of the RiskError raised.
check_risk(qty, mark_price, day_used_notional, limit_daily, max_slippage_bps) ==
    LET notional == qty * mark_price
    IN  IF qty <= 0 THEN QtyMessage
        ELSE IF Truthy(limit_daily) /\ day_used_notional + notional > limit_daily[1]
             THEN LimitMessage
             ELSE RiskOk

RiskQtys == (0 - 1)..MaxRiskQty
RiskMarks == 1..2
RiskUsed == 0..MaxRiskUsed
RiskLimits == {None, Some(0), Some(2), Some(4)}
RiskSlippages == {0, 50}

RiskArgs ==
    [qty : RiskQtys, mark_price : RiskMarks, day_used_notional : RiskUsed,
     limit_daily : RiskLimits, max_slippage_bps : RiskSlippages]

CallCheckRisk ==
    /\ riskOut = None
    /\ riskOut' = Some(check_risk(riskIn.qty, riskIn.mark_price,
                                  riskIn.day_used_notional, riskIn.limit_daily,
                                  riskIn.max_slippage_bps))
    /\ UNCHANGED <<riskIn, intakeVars, lcVars, exeVars>>

----------------------------------------------------------------------------
(***************************************************************************)
(* Lifecycle state machine over the ORM store (lifecycle.py).              *)
(***************************************************************************)

PlanStatus == {"created", "submitted", "partially_filled", "filled", "canceled", "error"}
TERMINAL_STATUSES == {"filled", "canceled", "error"}
INFLIGHT_STATUSES == {"created", "submitted", "partially_filled"}

LcPlanIds == {"p1", "p2"}
LcPlanOrder == <<"p1", "p2">>
Sessions == {"a", "b"}

Reason(text, arg) == [text |-> text, arg |-> arg]

\* What the exchange adapter can answer.  "raise" stands for any exception;
\* "open" for a venue status the mapping of refresh does not know;
\* "declined" for a returned result that reports the venue's rejection
\* (submit does not look at what the adapter returns).
SubmitResults == {"ok", "declined", "raise"}
QueryResults == {"submitted", "partially_filled", "filled", "canceled", "error",
                 "open", "raise"}
CancelResults == {"ok", "raise"}
ExceptionText == Reason("exception", "adapter failure")

\* The mapping of refresh: mapping.get(q.get("status"), PlanStatus.error).
MapVenueStatus(v) == IF v \in PlanStatus \ {"created"} THEN v ELSE "error"

IdleSession == [pc |-> "idle", op |-> "none", plan |-> "none", seen |-> "none",
                got |-> "none"]
IdleResume == [pc |-> "idle", todo |-> <<>>, seen |-> "none", got |-> "none"]

\* Lifecycle._log_event: one ExecEvent whose from_status is the status the
\* session holds in memory, and the plan row set to to_status, in one commit.
_log_event(plan, held, to_status, event, reason) ==
    /\ lcClock < MaxLcEvents
    /\ lcClock' = lcClock + 1
    /\ lcEvents' = [lcEvents EXCEPT ![plan] =
                      Append(@, [from |-> held, to |-> to_status, event |-> event,
                                 reason |-> reason, at |-> lcClock + 1])]
    /\ lcStatus' = [lcStatus EXCEPT ![plan] = to_status]

\* create_plan: the row in status created and its init event.
create_plan(plan) ==
    /\ lcStatus[plan] = "none"
    /\ lcClock < MaxLcEvents
    /\ lcClock' = lcClock + 1
    /\ lcStatus' = [lcStatus EXCEPT ![plan] = "created"]
    /\ lcEvents' = [lcEvents EXCEPT ![plan] =
                      Append(@, [from |-> "null", to |-> "created", event |-> "init",
                                 reason |-> Reason("plan created", ""), at |-> lcClock + 1])]
    /\ UNCHANGED <<sess, resume, intakeVars, riskVars, exeVars>>

\* The status tests with submit using the test of refresh and cancel.
Proceeds_SubmitUnlessTerminal(op, status) == status \notin TERMINAL_STATUSES

\* The status test each Lifecycle method makes on the row it has just read.
Proceeds(op, status) ==
    CASE op = "submit"  -> status \in {"created", "error"}
      [] op = "refresh" -> status \notin TERMINAL_STATUSES
      [] op = "cancel"  -> status \notin TERMINAL_STATUSES

\* What the adapter can answer to the call each method makes.
AdapterResults(op) ==
    CASE op = "submit"  -> SubmitResults
      [] op = "refresh" -> QueryResults
      [] op = "cancel"  -> CancelResults

\* First half of Lifecycle.submit/refresh/cancel in session w: the row is
\* read, passes the status test, and the adapter is called; r is what the
\* adapter is going to answer.
LifecycleCall(w, op, plan, r) ==
    /\ sess[w].pc = "idle"
    /\ lcStatus[plan] # "none"
    /\ Proceeds(op, lcStatus[plan])
    /\ sess' = [sess EXCEPT ![w] = [pc |-> "called", op |-> op, plan |-> plan,
                                    seen |-> lcStatus[plan], got |-> r]]
    /\ UNCHANGED <<lcStatus, lcEvents, lcClock, resume, intakeVars, riskVars, exeVars>>

\* Second half of Lifecycle.submit: the adapter answered or raised.
SubmitReturn(w) ==
    /\ sess[w].pc = "called" /\ sess[w].op = "submit"
    /\ IF sess[w].got # "raise"
       THEN _log_event(sess[w].plan, sess[w].seen, "submitted", "submit",
                       Reason("order submitted", ""))
       ELSE _log_event(sess[w].plan, sess[w].seen, "error", "submit_error", ExceptionText)
    /\ sess' = [sess EXCEPT ![w] = IdleSession]
    /\ UNCHANGED <<resume, intakeVars, riskVars, exeVars>>

\* The body of refresh with an event written whatever the venue answers.
RefreshOutcome_AlwaysLogs(plan, held, r) ==
    IF r = "raise"
    THEN _log_event(plan, held, "error", "refresh_error", ExceptionText)
    ELSE _log_event(plan, held, MapVenueStatus(r), "refresh", Reason("venue status", r))

\* The body of refresh once adapter.query has answered r to a session that
\* holds status `held` for the plan.
RefreshOutcome(plan, held, r) ==
    IF r = "raise"
    THEN _log_event(plan, held, "error", "refresh_error", ExceptionText)
    ELSE IF MapVenueStatus(r) # held
         THEN _log_event(plan, held, MapVenueStatus(r), "refresh",
                         Reason("venue status", r))
         ELSE UNCHANGED <<lcStatus, lcEvents, lcClock>>

\* Second half of Lifecycle.refresh.
RefreshReturn(w) ==
    /\ sess[w].pc = "called" /\ sess[w].op = "refresh"
    /\ RefreshOutcome(sess[w].plan, sess[w].seen, sess[w].got)
    /\ sess' = [sess EXCEPT ![w] = IdleSession]
    /\ UNCHANGED <<resume, intakeVars, riskVars, exeVars>>

\* Lifecycle.cancel recording the plan as canceled also when the adapter raised.
CancelReturn_SwallowsFailure(w) ==
    /\ sess[w].pc = "called" /\ sess[w].op = "cancel"
    /\ _log_event(sess[w].plan, sess[w].seen, "canceled", "cancel",
                  Reason("user_cancel", ""))
    /\ sess' = [sess EXCEPT ![w] = IdleSession]
    /\ UNCHANGED <<resume, intakeVars, riskVars, exeVars>>

\* Second half of Lifecycle.cancel.
CancelReturn(w) ==
    /\ sess[w].pc = "called" /\ sess[w].op = "cancel"
    /\ IF sess[w].got = "ok"
       THEN _log_event(sess[w].plan, sess[w].seen, "canceled", "cancel",
                       Reason("user_cancel", ""))
       ELSE _log_event(sess[w].plan, sess[w].seen, "error", "cancel_error", ExceptionText)
    /\ sess' = [sess EXCEPT ![w] = IdleSession]
    /\ UNCHANGED <<resume, intakeVars, riskVars, exeVars>>

\* resume_inflight_on_startup, the select: the in-flight plans with the
\* status each had when selected.
ResumeSelect ==
    /\ resume.pc = "idle"
    /\ LET inflight == SelectSeq(LcPlanOrder, LAMBDA q : lcStatus[q] \in INFLIGHT_STATUSES)
       IN  resume' = IF inflight = <<>> THEN IdleResume
                     ELSE [pc   |-> "check",
                           todo |-> [i \in 1..Len(inflight) |->
                                       [plan |-> inflight[i],
                                        status |-> lcStatus[inflight[i]]]],
                           seen |-> "none", got |-> "none"]
    /\ UNCHANGED <<lcStatus, lcEvents, lcClock, sess, intakeVars, riskVars, exeVars>>

\* The status a selected object shows: the one loaded by the select until
\* the session commits; a commit expires every loaded object, and the next
\* access loads the row again.
HeldStatus(entry) ==
    IF entry.status = "expired" THEN lcStatus[entry.plan] ELSE entry.status

\* resume_inflight_on_startup, the resume_check event of the next plan.
ResumeCheck ==
    /\ resume.pc = "check"
    /\ lcClock < MaxLcEvents
    /\ LET h == Head(resume.todo)
       IN  lcEvents' = [lcEvents EXCEPT ![h.plan] =
                          Append(@, [from |-> HeldStatus(h), to |-> HeldStatus(h),
                                     event |-> "resume_check",
                                     reason |-> Reason("process resumed", ""),
                                     at |-> lcClock + 1])]
    /\ lcClock' = lcClock + 1
    /\ resume' = [resume EXCEPT !.pc = "query",
                                !.todo = [i \in 1..Len(resume.todo) |->
                                            [resume.todo[i] EXCEPT !.status = "expired"]]]
    /\ UNCHANGED <<lcStatus, sess, intakeVars, riskVars, exeVars>>

ResumeAdvance(todo) ==
    IF Tail(todo) = <<>> THEN IdleResume
    ELSE [resume EXCEPT !.pc = "check", !.todo = Tail(todo), !.seen = "none",
                        !.got = "none"]

\* sm.refresh(plan_id) called by resume: the row is read anew and, unless
\* terminal, the adapter is called; r is what the adapter is going to answer.
ResumeQuery(r) ==
    /\ resume.pc = "query"
    /\ LET cur == lcStatus[Head(resume.todo).plan]
       IN  resume' = IF cur \in TERMINAL_STATUSES
                     THEN ResumeAdvance(resume.todo)
                     ELSE [resume EXCEPT !.pc = "refresh", !.seen = cur, !.got = r]
    /\ UNCHANGED <<lcStatus, lcEvents, lcClock, sess, intakeVars, riskVars, exeVars>>

\* The loop of resume ending at the first plan whose venue query fails.
ResumeRefreshReturn_StopsOnFailure ==
    /\ resume.pc = "refresh"
    /\ RefreshOutcome(Head(resume.todo).plan, resume.seen, resume.got)
    /\ resume' = IF resume.got = "raise" THEN IdleResume ELSE ResumeAdvance(resume.todo)
    /\ UNCHANGED <<sess, intakeVars, riskVars, exeVars>>

\* sm.refresh(plan_id) called by resume: what follows the adapter's answer.
ResumeRefreshReturn ==
    /\ resume.pc = "refresh"
    /\ RefreshOutcome(Head(resume.todo).plan, resume.seen, resume.got)
    /\ resume' = ResumeAdvance(resume.todo)
    /\ UNCHANGED <<sess, intakeVars, riskVars, exeVars>>

----------------------------------------------------------------------------
(***************************************************************************)
(* The tables of execution.sqlite (schema.py) and the statements the       *)
(* executor runs against them (executor.py).                               *)
(***************************************************************************)

\* What ensure_schema creates in an empty database file.
SchemaPlanColumns ==
    {"id", "user_id", "signal_ref", "symbol", "side", "qty", "limit_px", "tif",
     "reduce_only", "source", "rule_ref", "risk_json", "status", "sl_price",
     "created_at", "updated_at", "idempotency_key"}
SchemaEventColumns == {"id", "plan_id", "type", "ts", "data_json"}

FreshDb == [plans |-> SchemaPlanColumns, events |-> SchemaEventColumns]

\* ensure_schema creates tables only IF NOT EXISTS: a database file made
\* before schema.py keeps its tables.  This is the one the executor's
\* statements are written against.
LegacyDb ==
    [plans  |-> SchemaPlanColumns \cup {"broker_order_id"},
     events |-> {"id", "plan_id", "ts", "event", "detail_json"}]

\* Columns named by each statement of the executor.
AckUpdateColumns == {"status", "broker_order_id", "updated_at", "id"}
RejectUpdateColumns == {"status", "updated_at", "id"}
EmitColumns == {"plan_id", "ts", "event", "detail_json"}

\* sqlite3 raises OperationalError when a statement names a missing column.
StatementRuns(columns, table) == columns \subseteq table
OperationalError == Reason("exception", "no such column")
OracleError == Reason("exception", "Could not fetch current price")
\* Recorded when the process is stopped while it is working on a plan.
ProcessStopped == Reason("stopped", "")

----------------------------------------------------------------------------
(***************************************************************************)
(* Executor.process_created_plans and the loop of run_executor.py.         *)
(***************************************************************************)

MinutesPerDay == 1440
DateOf(t) == t \div MinutesPerDay

RECURSIVE SumQtyTimes(_, _)
SumQtyTimes(rows, mark) ==
    IF rows = {} THEN 0
    ELSE LET r == CHOOSE x \in rows : TRUE
         IN  r.qty * mark + SumQtyTimes(rows \ {r}, mark)

\* The used-notional query of the sweep.
UsedNotional(user_id, mark, plans, t) ==
    SumQtyTimes({ r \in plans : /\ r.user_id = user_id
                                /\ DateOf(r.created_at) = DateOf(t)
                                /\ r.status \in {"sent", "acked", "filled"} },
                mark)

\* What the price oracle can answer: a price, or <<>> when PxAdapter.mark raises.
OracleResults == {None, Some(10), Some(40)}

\* The client order id of a call: the plan id, with "-sl" appended by the
\* stop-loss monitor.  NoOrderId is the empty broker_order_id "" of a
\* rejected result.
ClientOrderId(id, suffix) == [plan |-> id, suffix |-> suffix]
NoOrderId == [plan |-> "", suffix |-> ""]

\* Broker.place_market as the two variants answer it.  SimBroker asks the
\* oracle for the fill price and raises what the oracle raises;
\* HyperliquidBroker turns every failure into a rejected result.
Ack(client_order_id, qty, fill_px) ==
    [status |-> "ack", broker_order_id |-> Some(client_order_id),
     fill_px |-> fill_px, qty |-> qty]
Rejection ==
    [status |-> "rejected", broker_order_id |-> Some(NoOrderId), fill_px |-> None,
     qty |-> 0]
BrokerRaises == [status |-> "raise", broker_order_id |-> None, fill_px |-> None, qty |-> 0]

PlaceMarketResults(kind, client_order_id, qty) ==
    IF kind = "sim"
    THEN { IF m = None THEN BrokerRaises ELSE Ack(client_order_id, qty, m) :
             m \in OracleResults }
    ELSE { Ack(client_order_id, qty, m) : m \in OracleResults \ {None} } \cup {Rejection}

\* The key under which the broker could recognise a repeated request.
\* HyperliquidBroker calls exchange.market_open(coin, is_buy, sz, builder)
\* or market_close(coin, sz, builder): client_order_id is not handed on.
\* SimBroker keeps no orders and answers every call with a new ack.
DedupeKey(kind, call) == None

\* The orders the broker ends up with after a sequence of place_market
\* calls: requests with the same key are one order, a request without a
\* key is an order of its own.
BookedOrders(kind, calls) ==
    { [key |-> DedupeKey(kind, calls[i]),
       n   |-> IF DedupeKey(kind, calls[i]) = None THEN i ELSE 0] :
        i \in 1..Len(calls) }

Detail(reason, ack, mark) == [reason |-> reason, ack |-> ack, mark |-> mark]

\* Executor._emit: one exec_events row.
EventRow(plan_id, event, detail, t) ==
    [plan_id |-> plan_id, ts |-> t, event |-> event, detail |-> detail]

PlacedCall(client_order_id, side, qty, reduce_only) ==
    [client_order_id |-> client_order_id, side |-> side, qty |-> qty,
     reduce_only |-> reduce_only]

IdleExe == [pc |-> "idle", todo |-> <<>>, pend |-> None]

RECURSIVE SeqOfRows(_)
SeqOfRows(rows) ==
    IF rows = {} THEN <<>>
    ELSE LET r == CHOOSE x \in rows : \A y \in rows : x.id <= y.id
         IN  <<r>> \o SeqOfRows(rows \ {r})

\* The statements the except branches run: status rejected, then the event.
RejectWrites(event, text) ==
    [branch |-> "except", status |-> "rejected", broker_order_id |-> None,
     event |-> event, detail |-> Detail(Some(text), None, None)]

\* The statements the try branch runs after the broker answered.
AckWrites(ack, mark) ==
    [branch |-> "try",
     status |-> IF ack.status = "ack" THEN "acked" ELSE "rejected",
     broker_order_id |-> ack.broker_order_id,
     event |-> "sent", detail |-> Detail(None, Some(ack), Some(mark))]

\* process_created_plans: SELECT * FROM order_plans WHERE status='created'.
SweepSelect ==
    /\ exe.pc = "idle"
    /\ LET created == SeqOfRows({ r \in order_plans : r.status = "created" })
       IN  exe' = [pc |-> IF created = <<>> THEN "sl_select" ELSE "plan",
                   todo |-> created, pend |-> None]
    /\ UNCHANGED <<db, daily_limit, broker, placed, raised, intakeVars, riskVars, lcVars>>

\* The oracle raises on the mark of the next plan: the exception leaves
\* process_created_plans, run_executor logs it and sleeps.
SweepOracleRaises ==
    /\ exe.pc = "plan"
    /\ raised' = raised \cup {[plan |-> Head(exe.todo).id, text |-> OracleError]}
    /\ exe' = IdleExe
    /\ UNCHANGED <<db, daily_limit, broker, placed, intakeVars, riskVars, lcVars>>

\* The risk gate raises for the next plan: no broker call.
SweepRiskRejects(mark) ==
    /\ exe.pc = "plan"
    /\ LET plan == Head(exe.todo)
           used == UsedNotional(plan.user_id, mark, order_plans, now)
           risk == check_risk(plan.qty, mark, used, daily_limit, 50)
       IN  /\ risk # RiskOk
           /\ raised' = raised \cup {[plan |-> plan.id, text |-> Reason("risk", risk)]}
           /\ exe' = [exe EXCEPT !.pc = "status", !.pend = Some(RejectWrites("reject", Reason("risk", risk)))]
    /\ UNCHANGED <<db, daily_limit, broker, placed, intakeVars, riskVars, lcVars>>

\* The risk gate passes and the broker is called with the plan's id as
\* client order id; it answers ack or rejected, or raises.
SweepPlaces(mark) ==
    /\ exe.pc = "plan"
    /\ Len(placed) < MaxPlaced
    /\ LET plan == Head(exe.todo)
           used == UsedNotional(plan.user_id, mark, order_plans, now)
       IN  /\ check_risk(plan.qty, mark, used, daily_limit, 50) = RiskOk
           /\ placed' = Append(placed, PlacedCall(ClientOrderId(plan.id, ""), plan.side,
                                                  plan.qty, FALSE))
           /\ \E ack \in PlaceMarketResults(broker, ClientOrderId(plan.id, ""), plan.qty) :
                IF ack.status = "raise"
                THEN /\ raised' = raised \cup {[plan |-> plan.id, text |-> OracleError]}
                     /\ exe' = [exe EXCEPT !.pc = "status",
                                           !.pend = Some(RejectWrites("error", OracleError))]
                ELSE /\ raised' = raised
                     /\ exe' = [exe EXCEPT !.pc = "status",
                                           !.pend = Some(AckWrites(ack, mark))]
    /\ UNCHANGED <<db, daily_limit, broker, intakeVars, riskVars, lcVars>>

SetStatus(plans, id, status, broker_order_id, t) ==
    { IF r.id = id
      THEN [r EXCEPT !.status = status, !.updated_at = t,
                     !.broker_order_id = broker_order_id]
      ELSE r : r \in plans }

\* UPDATE order_plans SET status ..., committed on its own.
SweepWritesStatus ==
    /\ exe.pc = "status"
    /\ LET plan == Head(exe.todo)
           w == exe.pend[1]
           columns == IF w.branch = "try" THEN AckUpdateColumns ELSE RejectUpdateColumns
       IN  /\ StatementRuns(columns, db.plans)
           /\ order_plans' = SetStatus(order_plans, plan.id, w.status,
                                       IF w.branch = "try" THEN w.broker_order_id
                                       ELSE (CHOOSE r \in order_plans : r.id = plan.id).broker_order_id,
                                       now)
           /\ exe' = [exe EXCEPT !.pc = "event"]
    /\ UNCHANGED <<now, exec_events, resp, intake, db, daily_limit, broker, placed, raised,
                   riskVars, lcVars>>

\* The UPDATE of the try branch names a column the table lacks: sqlite3
\* raises, and the `except Exception` branch takes over.
SweepStatusWriteRaises ==
    /\ exe.pc = "status"
    /\ exe.pend[1].branch = "try"
    /\ ~StatementRuns(AckUpdateColumns, db.plans)
    /\ raised' = raised \cup {[plan |-> Head(exe.todo).id, text |-> OperationalError]}
    /\ exe' = [exe EXCEPT !.pend = Some(RejectWrites("error", OperationalError))]
    /\ UNCHANGED <<db, daily_limit, broker, placed, intakeVars, riskVars, lcVars>>

\* _emit: INSERT INTO exec_events, committed on its own; then the next plan.
SweepWritesEvent ==
    /\ exe.pc = "event"
    /\ StatementRuns(EmitColumns, db.events)
    /\ LET plan == Head(exe.todo)
           w == exe.pend[1]
       IN  exec_events' = Append(exec_events, EventRow(plan.id, w.event, w.detail, now))
    /\ exe' = [pc |-> IF Tail(exe.todo) = <<>> THEN "sl_select" ELSE "plan",
               todo |-> Tail(exe.todo), pend |-> None]
    /\ UNCHANGED <<now, order_plans, resp, intake, db, daily_limit, broker, placed, raised,
                   riskVars, lcVars>>

\* _emit names a column the table lacks.  In the try branch the
\* `except Exception` branch takes over; in an except branch the exception
\* leaves process_created_plans.
SweepEventWriteRaises ==
    /\ exe.pc = "event"
    /\ ~StatementRuns(EmitColumns, db.events)
    /\ raised' = raised \cup {[plan |-> Head(exe.todo).id, text |-> OperationalError]}
    /\ exe' = IF exe.pend[1].branch = "try"
              THEN [exe EXCEPT !.pc = "status",
                               !.pend = Some(RejectWrites("error", OperationalError))]
              ELSE IdleExe
    /\ UNCHANGED <<db, daily_limit, broker, placed, intakeVars, riskVars, lcVars>>

----------------------------------------------------------------------------
(***************************************************************************)
(* Executor.sl_daemon_tick, which the loop runs after a sweep that did     *)
(* not raise.                                                              *)
(***************************************************************************)

\* SELECT ... WHERE sl_price IS NOT NULL AND status IN ('acked','partially_filled').
SlSelect ==
    /\ exe.pc = "sl_select"
    /\ LET rows == SeqOfRows({ r \in order_plans :
                                 /\ r.sl_price # None
                                 /\ r.status \in {"acked", "partially_filled"} })
       IN  exe' = [pc |-> IF rows = <<>> THEN "idle" ELSE "sl_plan",
                   todo |-> rows, pend |-> None]
    /\ UNCHANGED <<db, daily_limit, broker, placed, raised, intakeVars, riskVars, lcVars>>

\* The trigger test with a strict comparison for long positions.
Hit_StrictlyBelow(r, mark) ==
    \/ r.side = "buy" /\ mark < r.sl_price[1]
    \/ r.side = "sell" /\ mark >= r.sl_price[1]

\* The trigger test of the monitor.
Hit(r, mark) ==
    \/ r.side = "buy" /\ mark <= r.sl_price[1]
    \/ r.side = "sell" /\ mark >= r.sl_price[1]

SlAdvance(todo) ==
    [pc |-> IF Tail(todo) = <<>> THEN "idle" ELSE "sl_plan", todo |-> Tail(todo),
     pend |-> None]

\* The oracle raises on the mark of the next monitored plan: the exception
\* leaves sl_daemon_tick.
SlOracleRaises ==
    /\ exe.pc = "sl_plan"
    /\ raised' = raised \cup {[plan |-> Head(exe.todo).id, text |-> OracleError]}
    /\ exe' = IdleExe
    /\ UNCHANGED <<db, daily_limit, broker, placed, intakeVars, riskVars, lcVars>>

\* The stop is not hit: continue with the next row.  The local variable
\* mark keeps the price just read.
SlNotHit(mark) ==
    /\ exe.pc = "sl_plan"
    /\ ~Hit(Head(exe.todo), mark)
    /\ exe' = [SlAdvance(exe.todo) EXCEPT !.pend = Some([branch |-> "sl", mark |-> mark])]
    /\ UNCHANGED <<db, daily_limit, broker, placed, raised, intakeVars, riskVars, lcVars>>

\* The stop is hit: a reduce-only market order on the opposite side, client
\* order id "<plan id>-sl".  Whatever the broker answers goes into the
\* event; an exception of the broker leaves sl_daemon_tick.
SlPlaces(mark) ==
    /\ exe.pc = "sl_plan"
    /\ Len(placed) < MaxPlaced
    /\ LET r == Head(exe.todo)
           cid == ClientOrderId(r.id, "-sl")
       IN  /\ Hit(r, mark)
           /\ placed' = Append(placed, PlacedCall(cid, IF r.side = "buy" THEN "sell" ELSE "buy",
                                                  r.qty, TRUE))
           /\ \E ack \in PlaceMarketResults(broker, cid, r.qty) :
                IF ack.status = "raise"
                THEN /\ raised' = raised \cup {[plan |-> r.id, text |-> OracleError]}
                     /\ exe' = IdleExe
                ELSE /\ raised' = raised
                     /\ exe' = [exe EXCEPT !.pc = "sl_event",
                                  !.pend = Some([branch |-> "sl", status |-> "filled",
                                                 broker_order_id |-> None,
                                                 event |-> "sl_trigger",
                                                 detail |-> Detail(None, Some(ack), Some(mark))])]
    /\ UNCHANGED <<db, daily_limit, broker, intakeVars, riskVars, lcVars>>

\* _emit of the sl_trigger event, committed on its own.  (A monitored row
\* has been acked, so the tables have the executor's columns.)
SlWritesEvent ==
    /\ exe.pc = "sl_event"
    /\ StatementRuns(EmitColumns, db.events)
    /\ LET w == exe.pend[1]
       IN  exec_events' = Append(exec_events,
                                 EventRow(Head(exe.todo).id, w.event, w.detail, now))
    /\ exe' = [exe EXCEPT !.pc = "sl_status"]
    /\ UNCHANGED <<now, order_plans, resp, intake, db, daily_limit, broker, placed, raised,
                   riskVars, lcVars>>

\* UPDATE order_plans SET status='filled', committed on its own; then the
\* next row.
SlWritesStatus ==
    /\ exe.pc = "sl_status"
    /\ StatementRuns(RejectUpdateColumns, db.plans)
    /\ LET r == Head(exe.todo)
       IN  order_plans' = SetStatus(order_plans, r.id, "filled",
                                    (CHOOSE x \in order_plans : x.id = r.id).broker_order_id,
                                    now)
    /\ exe' = SlAdvance(exe.todo)
    /\ UNCHANGED <<now, exec_events, resp, intake, db, daily_limit, broker, placed, raised,
                   riskVars, lcVars>>

\* The executor process is killed and started again: its position is lost,
\* the database file stays.
ProcessStops ==
    /\ exe.pc # "idle"
    /\ exe' = IdleExe
    /\ raised' = IF exe.todo = <<>> THEN raised
                 ELSE raised \cup {[plan |-> Head(exe.todo).id, text |-> ProcessStopped]}
    /\ UNCHANGED <<db, daily_limit, broker, placed, intakeVars, riskVars, lcVars>>

----------------------------------------------------------------------------
vars == <<intakeVars, riskVars, lcVars, exeVars>>

\* Status values the executor stores (executor.py) besides 'created'.
StoreStatuses == {"created", "acked", "rejected", "filled"}

\* The store at the start: empty, or holding one plan of an earlier intake in
\* whatever status the executor has left it.
EarlierPlans ==
    { [NewPlanRow(1, req, 20, 0) EXCEPT !.status = s] :
        req \in { q \in ManualReq : q.side = "buy" /\ q.signal_ref = Text("s1", FALSE) },
        s \in StoreStatuses }

RiskIdle ==
    /\ riskIn = [qty |-> 1, mark_price |-> 1, day_used_notional |-> 0,
                 limit_daily |-> None, max_slippage_bps |-> 50]
    /\ riskOut = None

LcIdle ==
    /\ lcStatus = [q \in LcPlanIds |-> "none"]
    /\ lcEvents = [q \in LcPlanIds |-> <<>>]
    /\ lcClock = 0
    /\ sess = [w \in Sessions |-> IdleSession]
    /\ resume = IdleResume

StoreEmpty ==
    /\ now = 0
    /\ order_plans = {}
    /\ exec_events = <<>>
    /\ resp = None
    /\ intake = [c \in Callers |-> IdleCall]

ExeIdle ==
    /\ db = FreshDb
    /\ daily_limit = None
    /\ broker = "sim"
    /\ exe = IdleExe
    /\ placed = <<>>
    /\ raised = {}

InitIntake ==
    /\ now = 0
    /\ order_plans \in {{}} \cup { {r} : r \in EarlierPlans }
    /\ exec_events = <<>>
    /\ resp = None
    /\ intake = [c \in Callers |-> IdleCall]
    /\ RiskIdle
    /\ LcIdle
    /\ ExeIdle

NextIntake == trade_manual \/ Tick

SpecIntake == InitIntake /\ [][NextIntake]_vars

\* The intake with two requests in progress at a time.
\* The two requests of the race are retries of one signal of one user.
RaceReq == { req \in ManualReq : req.side = "buy" /\ req.signal_ref.text = "s1" }

InitIntakeRace ==
    /\ StoreEmpty
    /\ RiskIdle
    /\ LcIdle
    /\ ExeIdle

NextIntakeRace ==
    \/ \E c \in Callers, req \in RaceReq, m \in IntakeMarks : TradeManualChecks(c, req, m)
    \/ \E c \in Callers : TradeManualInserts(c)
    \/ \E req \in RaceReq, m \in IntakeMarks : TradeManualCooldown(req, m)
    \/ Tick

SpecIntakeRace == InitIntakeRace /\ [][NextIntakeRace]_vars

InitRisk ==
    /\ riskIn \in RiskArgs
    /\ riskOut = None
    /\ StoreEmpty
    /\ LcIdle
    /\ ExeIdle

NextRisk == CallCheckRisk

SpecRisk == InitRisk /\ [][NextRisk]_vars

InitLifecycle ==
    /\ LcIdle
    /\ StoreEmpty
    /\ RiskIdle
    /\ ExeIdle

NextLifecycle ==
    \/ \E q \in LcPlanIds : create_plan(q)
    \/ \E w \in Sessions, op \in {"submit", "refresh", "cancel"}, q \in LcPlanIds :
          \E r \in AdapterResults(op) : LifecycleCall(w, op, q, r)
    \/ \E w \in Sessions : SubmitReturn(w)
    \/ \E w \in Sessions : RefreshReturn(w)
    \/ \E w \in Sessions : CancelReturn(w)
    \/ ResumeSelect
    \/ ResumeCheck
    \/ \E r \in QueryResults : ResumeQuery(r)
    \/ ResumeRefreshReturn

SpecLifecycle == InitLifecycle /\ [][NextLifecycle]_vars

\* One caller: every operation runs from its first step to its return before
\* the next one starts (a single client, the startup hook before the API
\* serves requests).
NoOperationRunning ==
    /\ \A w \in Sessions : sess[w].pc = "idle"
    /\ resume.pc = "idle"

NextLifecycleSeq ==
    \/ NoOperationRunning /\ \E q \in LcPlanIds : create_plan(q)
    \/ /\ NoOperationRunning
       /\ \E op \in {"submit", "refresh", "cancel"}, q \in LcPlanIds :
             \E r \in AdapterResults(op) : LifecycleCall("a", op, q, r)
    \/ SubmitReturn("a")
    \/ RefreshReturn("a")
    \/ CancelReturn("a")
    \/ NoOperationRunning /\ ResumeSelect
    \/ ResumeCheck
    \/ \E r \in QueryResults : ResumeQuery(r)
    \/ ResumeRefreshReturn


\* The event log a plan has when it was created, submitted and refreshed
\* up to the given status by an earlier process, its last event at time
\* `last` (times before the start of this process are not positive).
PastEvent(from, to, event, reason, at) ==
    [from |-> from, to |-> to, event |-> event, reason |-> reason, at |-> at]

PastLog(status, last) ==
    LET init == PastEvent("null", "created", "init", Reason("plan created", ""), last)
        sub(t) == PastEvent("created", "submitted", "submit",
                            Reason("order submitted", ""), t)
    IN  CASE status = "none" -> <<>>
          [] status = "created" -> <<init>>
          [] status = "submitted" -> <<[init EXCEPT !.at = last - 1], sub(last)>>
          [] status = "partially_filled" ->
               <<[init EXCEPT !.at = last - 2], sub(last - 1),
                 PastEvent("submitted", "partially_filled", "refresh",
                           Reason("venue status", "partially_filled"), last)>>
          [] status = "filled" ->
               <<[init EXCEPT !.at = last - 2], sub(last - 1),
                 PastEvent("submitted", "filled", "refresh",
                           Reason("venue status", "filled"), last)>>
          [] status = "canceled" ->
               <<[init EXCEPT !.at = last - 1],
                 PastEvent("created", "canceled", "cancel", Reason("user_cancel", ""),
                           last)>>
          [] status = "error" ->
               <<[init EXCEPT !.at = last - 1],
                 PastEvent("created", "error", "submit_error", ExceptionText, last)>>

StartupStatuses == PlanStatus \cup {"none"}

\* The process starts on the store an earlier process left behind.
InitStartup ==
    /\ \E s1 \in StartupStatuses, s2 \in StartupStatuses :
          /\ lcStatus = [q \in LcPlanIds |-> IF q = "p1" THEN s1 ELSE s2]
          /\ lcEvents = [q \in LcPlanIds |->
                           IF q = "p1" THEN PastLog(s1, 0 - 3) ELSE PastLog(s2, 0)]
    /\ lcClock = 0
    /\ sess = [w \in Sessions |-> IdleSession]
    /\ resume = IdleResume
    /\ StoreEmpty
    /\ RiskIdle
    /\ ExeIdle

\* The startup hook: resume_inflight_on_startup runs once, before the API
\* serves any request.
NextStartup ==
    \/ lcClock = 0 /\ ResumeSelect
    \/ ResumeCheck
    \/ \E r \in QueryResults : ResumeQuery(r)
    \/ ResumeRefreshReturn

SpecStartup == InitStartup /\ [][NextStartup]_vars

SpecLifecycleSeq == InitStartup /\ [][NextLifecycleSeq]_vars

\* Requests whose plans the executor finds in the store: two signals, a
\* zero and a positive size, both sides.
SweepRequests(signal) ==
    { q \in [user_id : UserIds, signal_ref : {signal}, symbol : RawSymbols,
             side : {"buy", "sell"}, size_type : SizeTypes, size_value : {0, 120},
             leverage : Leverages, sl_type : SlTypes, sl_value : SlPercents] : TRUE }

\* Stores of created plans as trade_manual leaves them (mark 20 at intake).
SweepStores ==
    { {NewPlanRow(1, q, 20, 0)} : q \in SweepRequests(Text("s1", FALSE)) }
    \cup { {NewPlanRow(1, q, 20, 0), NewPlanRow(2, q2, 20, 0)} :
             q \in SweepRequests(Text("s1", FALSE)),
             q2 \in SweepRequests(Text("s2", FALSE)) }

\* A store with one plan that has no stop-loss price.
SweepStoresNoSl ==
    { {NewPlanRow(1, [q EXCEPT !.sl_value = None], 20, 0)} :
        q \in SweepRequests(Text("s1", FALSE)) }

DailyLimits == {None, Some(0), Some(250)}

InitSweep ==
    /\ now = 0
    /\ order_plans \in SweepStores \cup SweepStoresNoSl
    /\ exec_events = <<>>
    /\ resp = None
    /\ intake = [c \in Callers |-> IdleCall]
    /\ db \in {FreshDb, LegacyDb}
    /\ daily_limit \in DailyLimits
    /\ broker \in {"sim", "hl"}
    /\ exe = IdleExe
    /\ placed = <<>>
    /\ raised = {}
    /\ RiskIdle
    /\ LcIdle

NextSweep ==
    \/ SweepSelect
    \/ SweepOracleRaises
    \/ \E m \in OracleResults \ {None} : SweepRiskRejects(m[1])
    \/ \E m \in OracleResults \ {None} : SweepPlaces(m[1])
    \/ SweepWritesStatus
    \/ SweepStatusWriteRaises
    \/ SweepWritesEvent
    \/ SweepEventWriteRaises
    \/ SlSelect
    \/ SlOracleRaises
    \/ \E m \in OracleResults \ {None} : SlNotHit(m[1])
    \/ \E m \in OracleResults \ {None} : SlPlaces(m[1])
    \/ SlWritesEvent
    \/ SlWritesStatus
    \/ ProcessStops

SpecSweep == InitSweep /\ [][NextSweep]_vars

----------------------------------------------------------------------------
(***************************************************************************)
(* Claims about the manual intake.                                         *)
(***************************************************************************)

Answered(r) == r # None /\ r[1].ok

\* C1: two consecutive trade_manual calls for the same intent (same user_id,
\* symbol, side, qty, sl_price, signal_ref) less than DedupeWindow minutes
\* apart are answered with one and the same stored plan (the second call
\* answers the plan id the first answered), at most one plan carries their
\* key, and no exec_events row is written.
C1_IdenticalIntakesOnePlan ==
    [][ (/\ Answered(resp) /\ Answered(resp')
         /\ resp' # resp
         /\ resp'[1].intent = resp[1].intent
         /\ resp'[1].at - resp[1].at < DedupeWindow)
        => /\ resp'[1].plan_id = resp[1].plan_id
           /\ resp'[1].plan_id \in PlanIds(order_plans')
           /\ Cardinality(RowsByKey(KeyOf(resp'[1].intent[1]), order_plans')) <= 1
           /\ exec_events' = <<>> ]_vars

\* C2: no two plans share an idempotency_key; no step of the intake removes a
\* plan or changes any attribute of an existing plan other than updated_at;
\* and an intake whose key an existing plan carries inserts no row.
C2_KeyUniqueUpsertKeepsPlan ==
    [][ /\ \A a, b \in order_plans' :
              a.idempotency_key = b.idempotency_key => a = b
        /\ \A r \in order_plans :
              \E q \in order_plans' : q = [r EXCEPT !.updated_at = q.updated_at]
        /\ (/\ Answered(resp')
            /\ \E r \in order_plans :
                  r.idempotency_key = KeyOf(resp'[1].intent[1]))
           => PlanIds(order_plans') = PlanIds(order_plans) ]_vars

\* C2 witness: an intake met the key of a plan the executor had already
\* filled, outside the cooldown: the plan is still there, only refreshed.
C2_Witness ==
    /\ Answered(resp)
    /\ ~resp[1].cooldown
    /\ \E r \in order_plans :
          /\ r.id = resp[1].plan_id
          /\ r.idempotency_key = KeyOf(resp[1].intent[1])
          /\ r.status = "filled"
          /\ r.updated_at > r.created_at
          /\ r.updated_at = resp[1].at

\* C3: an accepted trade_manual call that runs while a manual plan of the same
\* (user_id, signal_ref) created less than DedupeWindow minutes ago exists
\* writes nothing to order_plans and answers the id of a plan that already
\* existed, whatever qty and sl_price it computed.
C3_CooldownReturnsExisting ==
    [][ (/\ Answered(resp')
         /\ resp' # resp
         /\ \E r \in order_plans :
               /\ r.user_id = resp'[1].intent[1].user_id
               /\ r.signal_ref = resp'[1].intent[1].signal_ref
               /\ r.source = "manual"
               /\ now - r.created_at < DedupeWindow)
        => /\ order_plans' = order_plans
           /\ resp'[1].plan_id \in PlanIds(order_plans) ]_vars

\* C3 witness: the call computed a qty no stored plan has (its key is new) and
\* was still answered with the recent plan of the same user and signal.
C3_Witness ==
    /\ Answered(resp)
    /\ resp[1].cooldown
    /\ RowsByKey(KeyOf(resp[1].intent[1]), order_plans) = {}
    /\ \E r \in order_plans :
          /\ r.id = resp[1].plan_id
          /\ r.qty # resp[1].intent[1].qty
          /\ r.signal_ref = resp[1].intent[1].signal_ref

----------------------------------------------------------------------------
(***************************************************************************)
(* Claims about the risk gate.                                             *)
(***************************************************************************)

\* C10: check_risk raises exactly when qty <= 0, or a daily limit is
\* configured (is not None) and day_used_notional + qty * mark_price exceeds
\* it; in every other case it returns normally.
C10_CheckRiskRaisesExactlyWhen ==
    riskOut # None =>
        ( riskOut[1] # RiskOk
          <=> \/ riskIn.qty <= 0
              \/ /\ riskIn.limit_daily # None
                 /\ riskIn.day_used_notional + riskIn.qty * riskIn.mark_price
                      > riskIn.limit_daily[1] )

----------------------------------------------------------------------------
(***************************************************************************)
(* Claims about the lifecycle state machine.                               *)
(***************************************************************************)

\* The events a step appends to a plan's log.
NewEvents(plan) == SubSeq(lcEvents'[plan], Len(lcEvents[plan]) + 1, Len(lcEvents'[plan]))

\* No running operation holds a status of the plan read before the plan's
\* current status was committed: whatever acts on the plan next started later.
NoEarlierReader(plan) ==
    /\ \A w \in Sessions :
         (sess[w].pc # "idle" /\ sess[w].plan = plan) => sess[w].seen = lcStatus[plan]
    /\ \A i \in 1..Len(resume.todo) :
         resume.todo[i].plan = plan => HeldStatus(resume.todo[i]) = lcStatus[plan]
    /\ (resume.pc = "refresh" /\ Head(resume.todo).plan = plan)
         => resume.seen = lcStatus[plan]

\* C4: terminal immutability.  Once a plan is filled, canceled or error, no
\* operation that acts on it afterwards changes its status or appends an
\* event whose to_status differs from that status.
C4_TerminalImmutable ==
    [][ \A q \in LcPlanIds :
          (lcStatus[q] \in TERMINAL_STATUSES /\ NoEarlierReader(q))
          => /\ lcStatus'[q] = lcStatus[q]
             /\ \A i \in 1..Len(NewEvents(q)) : NewEvents(q)[i].to = lcStatus[q] ]_vars

\* The transition table of the state machine: forward along
\* created, submitted, partially_filled, filled; from an in-flight status to
\* canceled or error; nothing out of a terminal status.  An event that
\* records no change (resume_check) is not a step.
StatusRank(st) ==
    CASE st = "created" -> 0
      [] st = "submitted" -> 1
      [] st = "partially_filled" -> 2
      [] st = "filled" -> 3

LegalStep(from, to) ==
    \/ from = "null" /\ to = "created"
    \/ from = to
    \/ /\ from \in INFLIGHT_STATUSES
       /\ \/ to \in {"canceled", "error"}
          \/ to \in {"submitted", "partially_filled", "filled"}
             /\ StatusRank(to) > StatusRank(from)

\* C5: state-machine legality.  Every stored status is one of the six
\* statuses and every recorded from_status -> to_status step is allowed by
\* the transition table.
C5_LegalTransitions ==
    \A q \in LcPlanIds :
        /\ lcStatus[q] \in PlanStatus \cup {"none"}
        /\ \A i \in 1..Len(lcEvents[q]) :
             /\ lcEvents[q][i].to \in PlanStatus
             /\ LegalStep(lcEvents[q][i].from, lcEvents[q][i].to)

\* C6: audit chain.  The events of a plan are strictly time-ordered and each
\* event's from_status is the to_status of the event before it.
C6_AuditChain ==
    \A q \in LcPlanIds :
        \A i \in 2..Len(lcEvents[q]) :
            /\ lcEvents[q][i].at > lcEvents[q][i - 1].at
            /\ lcEvents[q][i].from = lcEvents[q][i - 1].to

----------------------------------------------------------------------------
(***************************************************************************)
(* Claims about the single Lifecycle operations.                           *)
(***************************************************************************)

\* Session w starts operation op in this step: it has read the row and
\* calls the adapter.
Starts(w, op) == sess[w].pc = "idle" /\ sess'[w].pc = "called" /\ sess'[w].op = op

\* Session w returns from operation op in this step.
Returns(w, op) == sess[w].pc = "called" /\ sess[w].op = op /\ sess'[w].pc = "idle"

\* The step leaves every plan other than q alone.
OnlyPlan(q) ==
    \A o \in LcPlanIds \ {q} : lcStatus'[o] = lcStatus[o] /\ lcEvents'[o] = lcEvents[o]

\* C11: submit calls the adapter only for a plan it read in created or
\* error, once per call, and returns with exactly one event: the ack
\* (plan submitted) or the failure (plan error).  In any other status no
\* adapter call is made, and no submit event is written by anything else.
C11_SubmitOnceOneEvent ==
    [][ /\ \A w \in Sessions :
             Starts(w, "submit") =>
                 /\ lcStatus[sess'[w].plan] \in {"created", "error"}
                 /\ sess'[w].seen = lcStatus[sess'[w].plan]
                 /\ lcStatus' = lcStatus /\ lcEvents' = lcEvents
        /\ \A w \in Sessions :
             Returns(w, "submit") =>
                 LET q == sess[w].plan
                     e == NewEvents(q)
                 IN  /\ Len(e) = 1
                     /\ OnlyPlan(q)
                     /\ e[1].from = sess[w].seen
                     /\ e[1].to = lcStatus'[q]
                     /\ \/ e[1].event = "submit" /\ e[1].to = "submitted"
                        \/ /\ e[1].event = "submit_error" /\ e[1].to = "error"
                           /\ e[1].reason = ExceptionText
        /\ \A q \in LcPlanIds :
             (\E i \in 1..Len(NewEvents(q)) :
                 NewEvents(q)[i].event \in {"submit", "submit_error"})
             => \E w \in Sessions : Returns(w, "submit") /\ sess[w].plan = q
      ]_vars

\* A plan whose submit failed and whose second submit was acked.
C11_Witness ==
    \E q \in LcPlanIds :
        /\ Len(lcEvents[q]) >= 3
        /\ lcEvents[q][2].event = "submit_error"
        /\ lcEvents[q][3].event = "submit"
        /\ lcStatus[q] = "submitted"

\* C12: refresh queries the venue only for a plan it read in a
\* non-terminal status, once per call.  It returns with exactly one event
\* and the plan updated when the mapped venue status differs from the
\* status it read, and with no event and nothing changed when they are
\* equal.  On a terminal plan it makes no query and writes nothing.
\* (A query that raises is the failure case: one refresh_error event.)
C12_RefreshWritesIffDiffers ==
    [][ /\ \A w \in Sessions :
             Starts(w, "refresh") =>
                 /\ lcStatus[sess'[w].plan] \notin TERMINAL_STATUSES
                 /\ sess'[w].seen = lcStatus[sess'[w].plan]
                 /\ lcStatus' = lcStatus /\ lcEvents' = lcEvents
        /\ \A w \in Sessions :
             Returns(w, "refresh") =>
                 LET q == sess[w].plan
                     e == NewEvents(q)
                     got == sess[w].got
                     mapped == IF got \in {"submitted", "partially_filled", "filled",
                                           "canceled", "error"}
                               THEN got ELSE "error"
                 IN  /\ OnlyPlan(q)
                     /\ got # "raise" /\ mapped # sess[w].seen =>
                          /\ Len(e) = 1
                          /\ e[1].event = "refresh"
                          /\ e[1].from = sess[w].seen /\ e[1].to = mapped
                          /\ lcStatus'[q] = mapped
                     /\ got # "raise" /\ mapped = sess[w].seen =>
                          /\ Len(e) = 0
                          /\ lcStatus'[q] = lcStatus[q]
                     /\ got = "raise" =>
                          /\ Len(e) = 1
                          /\ e[1].event = "refresh_error" /\ e[1].to = "error"
                          /\ lcStatus'[q] = "error"
        /\ \A q \in LcPlanIds :
             (\E i \in 1..Len(NewEvents(q)) :
                 NewEvents(q)[i].event \in {"refresh", "refresh_error"})
             => \/ \E w \in Sessions : Returns(w, "refresh") /\ sess[w].plan = q
                \/ resume.pc = "refresh" /\ Head(resume.todo).plan = q
      ]_vars

\* A refresh that found the venue at the stored status (nothing written)
\* after one that found it changed (one event): a submitted plan refreshed
\* to partially_filled, then refreshed again with the same answer pending.
C12_Witness ==
    \E q \in LcPlanIds :
        /\ lcStatus[q] = "partially_filled"
        /\ lcEvents[q][Len(lcEvents[q])].event = "refresh"
        /\ sess["a"].pc = "called" /\ sess["a"].op = "refresh" /\ sess["a"].plan = q
        /\ sess["a"].got = "partially_filled"

\* C13: cancel calls the adapter only for a plan it read in an in-flight
\* status (created, submitted, partially_filled), once per call, and
\* returns with exactly one event: cancel (plan canceled) when the adapter
\* returned, cancel_error (plan error) when it raised.  On a terminal plan
\* it makes no call and writes nothing.
C13_CancelOneEvent ==
    [][ /\ \A w \in Sessions :
             Starts(w, "cancel") =>
                 /\ lcStatus[sess'[w].plan] \in {"created", "submitted", "partially_filled"}
                 /\ sess'[w].seen = lcStatus[sess'[w].plan]
                 /\ lcStatus' = lcStatus /\ lcEvents' = lcEvents
        /\ \A w \in Sessions :
             Returns(w, "cancel") =>
                 LET q == sess[w].plan
                     e == NewEvents(q)
                 IN  /\ Len(e) = 1
                     /\ OnlyPlan(q)
                     /\ e[1].from = sess[w].seen
                     /\ e[1].to = lcStatus'[q]
                     /\ sess[w].got = "ok" =>
                          e[1].event = "cancel" /\ e[1].to = "canceled"
                     /\ sess[w].got = "raise" =>
                          /\ e[1].event = "cancel_error" /\ e[1].to = "error"
                          /\ e[1].reason = ExceptionText
        /\ \A q \in LcPlanIds :
             (\E i \in 1..Len(NewEvents(q)) :
                 NewEvents(q)[i].event \in {"cancel", "cancel_error"})
             => \E w \in Sessions : Returns(w, "cancel") /\ sess[w].plan = q
      ]_vars

\* A partially filled plan whose cancel failed at the broker: it is in error
\* and its last event is the cancel_error.
C13_Witness ==
    \E q \in LcPlanIds :
        /\ lcStatus[q] = "error"
        /\ Len(lcEvents[q]) >= 2
        /\ lcEvents[q][Len(lcEvents[q])].event = "cancel_error"
        /\ lcEvents[q][Len(lcEvents[q])].from = "partially_filled"

\* What the store held for a plan when the process started, and what the
\* process has written since (times of this process are positive).
EventsAtStart(q) == SelectSeq(lcEvents[q], LAMBDA e : e.at <= 0)
EventsSinceStart(q) == SelectSeq(lcEvents[q], LAMBDA e : e.at > 0)
StatusAtStart(q) ==
    IF EventsAtStart(q) = <<>> THEN "none"
    ELSE EventsAtStart(q)[Len(EventsAtStart(q))].to

\* The outcome of a completed resume for one plan.
Resumed(q) ==
    LET e == EventsSinceStart(q)
        st == StatusAtStart(q)
    IN  IF st \in {"created", "submitted", "partially_filled"}
        THEN /\ Len(e) \in {1, 2}
             /\ e[1].event = "resume_check" /\ e[1].from = st /\ e[1].to = st
             /\ Len(e) = 1 => lcStatus[q] = st
             /\ Len(e) = 2 =>
                  /\ e[2].event \in {"refresh", "refresh_error"}
                  /\ e[2].from = st /\ e[2].to # st
                  /\ e[2].at > e[1].at
                  /\ lcStatus[q] = e[2].to
        ELSE e = <<>> /\ lcStatus[q] = st

----------------------------------------------------------------------------
(***************************************************************************)
(* The executor's two writes per plan, its exceptions and its risk gate.   *)
(***************************************************************************)

EventsOf(id) == SelectSeq(exec_events, LAMBDA e : e.plan_id = id)

\* The executor is past the plan: it is not between picking it and the
\* last write for it.
PastPlan(id) == exe.todo = <<>> \/ Head(exe.todo).id # id

RiskTexts == {Reason("risk", QtyMessage), Reason("risk", LimitMessage)}

\* C7: whenever the executor process is outside a handler (it finished,
\* failed or was stopped), each plan's status change and its event are
\* either both in the store or both absent.
C7_StatusAndEventTogether ==
    exe.pc = "idle" =>
        \A r \in order_plans :
            /\ (r.status # "created") <=> (Len(EventsOf(r.id)) >= 1)
            /\ (r.status = "filled") <=>
                 (\E i \in 1..Len(exec_events) :
                    exec_events[i].plan_id = r.id /\ exec_events[i].event = "sl_trigger")

\* C8: once the executor is past a plan for which an exception (other than
\* the risk gate's) was raised, the plan is in a terminal error status
\* (rejected is accepted as well) and has exactly one event, whose reason
\* is the exception text.
C8_ExceptionLeavesErrorAndEvent ==
    \A x \in raised :
        (x.text \notin RiskTexts \cup {ProcessStopped} /\ PastPlan(x.plan)) =>
            /\ \E r \in order_plans :
                 r.id = x.plan /\ r.status \in {"error", "rejected"}
            /\ Len(EventsOf(x.plan)) = 1
            /\ EventsOf(x.plan)[1].detail.reason = Some(x.text)

Stopped(id) == [plan |-> id, text |-> ProcessStopped] \in raised

\* C9: a plan whose risk check failed, the process never having been
\* stopped while working on it, is never handed to the broker, and once the
\* executor is past it the plan is rejected (or error) with exactly one
\* event, whose reason is the check's message.
C9_RiskGateShortCircuits ==
    \A x \in raised :
        (x.text \in RiskTexts /\ ~Stopped(x.plan)) =>
            /\ \A i \in 1..Len(placed) : placed[i].client_order_id.plan # x.plan
            /\ PastPlan(x.plan) =>
                 /\ \E r \in order_plans :
                      r.id = x.plan /\ r.status \in {"rejected", "error"}
                 /\ Len(EventsOf(x.plan)) = 1
                 /\ EventsOf(x.plan)[1].detail.reason = Some(x.text)

----------------------------------------------------------------------------
(***************************************************************************)
(* Claims about a pass of the sweep and about the stop-loss monitor.       *)
(***************************************************************************)

\* The executor's name of the status a broker ack leads to is "acked".
Acknowledged == {"submitted", "acked"}

StatusOf(id, plans) == (CHOOSE r \in plans : r.id = id).status

\* The executor is working on a plan of the sweep.
InSweep == exe.pc \in {"plan", "status", "event"}

\* The step that ends the sweep's work on the plan with this id normally.
SweepLeaves(id) ==
    /\ exe.pc = "event"
    /\ Head(exe.todo).id = id
    /\ exe'.pc \in {"plan", "sl_select"}

\* The work on the plan went through one of the except branches: the risk
\* gate failed or an exception was raised.
Failed == exe.pend[1].branch = "except"

\* C15: a pass of process_created_plans that completes leaves no plan in
\* created; each plan it processed has exactly one event and the status
\* submitted (acked) if the broker acknowledged it, rejected if the broker
\* declined it, error if the risk gate failed or an exception was raised;
\* while a plan is processed no other plan changes.
C15_SweepPassOutcome ==
    [][ /\ InSweep =>
              \A r \in order_plans : r.id # Head(exe.todo).id => r \in order_plans'
        /\ (exe.pc \in {"idle", "event"} /\ exe'.pc = "sl_select") =>
              \A r \in order_plans' : r.status # "created"
        /\ \A id \in PlanIds(order_plans) :
              SweepLeaves(id) =>
                 /\ Len(EventsOf(id)') = 1
                 /\ IF Failed
                    THEN StatusOf(id, order_plans') = "error"
                    ELSE IF exe.pend[1].detail.ack[1].status = "ack"
                         THEN StatusOf(id, order_plans') \in Acknowledged
                         ELSE StatusOf(id, order_plans') = "rejected"
      ]_vars

\* C16: a failure while the sweep processes one created plan (the oracle,
\* the risk gate, the broker, the status or the event write) does not keep
\* the remaining created plans of the pass from being processed: after the
\* failing step the pass still holds the plans that followed.
C16_FailureDoesNotAbortPass ==
    [][ (/\ InSweep
         /\ Len(exe.todo) > 1
         /\ raised' # raised
         /\ \A x \in raised' \ raised : x.text # ProcessStopped)
        => exe'.todo \in {exe.todo, Tail(exe.todo)} ]_vars

\* The stop-loss rule: a price the long position's stop is at or above, or
\* the short position's stop is at or below.
Eligible(r) ==
    /\ r.sl_price # None
    /\ r.status \in Acknowledged \cup {"partially_filled"}
TriggerRule(r, mark) ==
    IF r.side = "buy" THEN mark <= r.sl_price[1]
    ELSE r.side = "sell" /\ mark >= r.sl_price[1]

\* The step hands a closing order for the plan with this id to the broker.
PlacesClosing(id) ==
    /\ Len(placed') = Len(placed) + 1
    /\ placed'[Len(placed')].client_order_id = ClientOrderId(id, "-sl")

SlTriggers(id) == SelectSeq(exec_events, LAMBDA e : e.plan_id = id /\ e.event = "sl_trigger")

Opposite(side) == IF side = "buy" THEN "sell" ELSE "buy"

SweptToBroker(id) ==
    \E i \in 1..Len(placed) : placed[i].client_order_id = ClientOrderId(id, "")

ClosingCalls(id) ==
    SelectSeq(placed, LAMBDA c : c.client_order_id = ClientOrderId(id, "-sl"))

OracleFailed(id) == [plan |-> id, text |-> OracleError] \in raised

\* C19: with the simulation broker, a buy plan with a stop-loss price that
\* the sweep handed to the broker (the oracle answering, the process not
\* stopped) is submitted (acked) once the sweep is past it, with a first
\* event whose fill price is the mark of the sweep and whose qty is the
\* plan's; when it is filled later, that is by one sell reduce-only closing
\* order for the same qty.
C19_BuyPlanEndToEnd ==
    broker = "sim" =>
        \A r \in order_plans :
            (/\ r.side = "buy" /\ r.sl_price # None
             /\ SweptToBroker(r.id) /\ PastPlan(r.id)
             /\ ~Stopped(r.id) /\ ~OracleFailed(r.id)) =>
                /\ r.status \in Acknowledged \cup {"filled"}
                /\ Len(EventsOf(r.id)) >= 1
                /\ EventsOf(r.id)[1].event = "sent"
                /\ EventsOf(r.id)[1].detail.ack[1].fill_px = EventsOf(r.id)[1].detail.mark
                /\ EventsOf(r.id)[1].detail.ack[1].qty = r.qty
                /\ r.status = "filled" =>
                     /\ Len(SlTriggers(r.id)) = 1
                     /\ Len(ClosingCalls(r.id)) = 1
                     /\ ClosingCalls(r.id)[1] =
                          PlacedCall(ClientOrderId(r.id, "-sl"), "sell", r.qty, TRUE)

\* The sweep is about to store the outcome of a place_market call that raised.
BrokerRaisedForHead ==
    /\ exe.pc = "status"
    /\ exe.pend[1].branch = "except"
    /\ exe.pend[1].event = "error"
    /\ exe.pend[1].detail.reason = Some(OracleError)

\* C20: an order the venue declines comes back from place_market as a
\* result with status rejected and raises nothing, and the plan is stored
\* as rejected; a place_market call that raises (a transport failure) makes
\* the sweep store the plan as error, not as rejected.
C20_BrokerContract ==
    [][ \A id \in PlanIds(order_plans) :
          /\ (/\ exe.pc = "plan" /\ Head(exe.todo).id = id
              /\ exe'.pc = "status" /\ exe'.pend[1].branch = "try"
              /\ exe'.pend[1].detail.ack[1].status = "rejected")
             => raised' = raised /\ exe'.pend[1].status = "rejected"
          /\ (/\ BrokerRaisedForHead /\ Head(exe.todo).id = id
              /\ order_plans' # order_plans)
             => StatusOf(id, order_plans') = "error"
      ]_vars

----------------------------------------------------------------------------
(***************************************************************************)
(* Claims about repeated dispatch and about the closing order.             *)
(***************************************************************************)

OpeningCalls(id) ==
    SelectSeq(placed, LAMBDA c : c.client_order_id = ClientOrderId(id, ""))

\* C21: when a plan is dispatched twice because two passes read it as
\* created before a status was committed, both place_market calls carry
\* the plan's id as client order id and the broker ends up with at most
\* one opening order for the plan.
C21_BrokerDeduplicates ==
    \A r \in order_plans :
        /\ \A i \in 1..Len(placed) :
              placed[i].client_order_id.plan = r.id =>
                 placed[i].client_order_id \in {ClientOrderId(r.id, ""),
                                                ClientOrderId(r.id, "-sl")}
        /\ Cardinality(BookedOrders(broker, OpeningCalls(r.id))) <= 1

\* C22: whatever the sequence of sweep passes, broker failures, stops of
\* the process and restarts, the executor hands the opening order of a plan
\* to the broker at most once.
C22_NoSilentRetry ==
    \A r \in order_plans : Len(OpeningCalls(r.id)) <= 1

\* C26: a plan has at most one sl_trigger event and at most one closing
\* order over its whole life, stops of the process included.  (A call of
\* the simulation broker that raised placed no order, so plans with a
\* failed price fetch are left out of the count of orders.)
C26_AtMostOneStopLossTrigger ==
    \A r \in order_plans :
        /\ Len(SlTriggers(r.id)) <= 1
        /\ ~OracleFailed(r.id) => Len(ClosingCalls(r.id)) <= 1

\* C27: the stop-loss monitor sets a plan to filled only when the broker
\* acknowledged the closing order; after a rejected closing order, or a
\* call that raised, the plan keeps its status.
C27_FilledOnlyIfCloseAcked ==
    [][ \A r \in order_plans :
          (/\ exe.pc \in {"sl_plan", "sl_event", "sl_status"}
           /\ Head(exe.todo).id = r.id
           /\ StatusOf(r.id, order_plans') = "filled"
           /\ r.status # "filled")
          => /\ exe.pend # None
             /\ exe.pend[1].detail.ack[1].status = "ack"
      ]_vars

\* C24: the stop-loss monitor runs in every iteration of the loop, also in
\* one whose submission sweep failed: the executor goes from the sweep
\* back to idle, skipping sl_daemon_tick, only when the process is stopped.
C24_SweepFailureKeepsMonitor ==
    [][ (InSweep /\ exe'.pc = "idle")
        => [plan |-> Head(exe.todo).id, text |-> ProcessStopped] \in raised' \ raised
      ]_vars

UserOf(id) == (CHOOSE r \in order_plans : r.id = id).user_id

\* The notional of the orders of a user that the sweep sent and the broker
\* took, each at the mark the sweep accepted it at.
RECURSIVE AcceptedNotional(_, _)
AcceptedNotional(user_id, events) ==
    IF events = <<>> THEN 0
    ELSE LET e == Head(events)
         IN  (IF /\ e.event = "sent"
                 /\ UserOf(e.plan_id) = user_id
                 /\ e.detail.ack[1].status = "ack"
              THEN e.detail.ack[1].qty * e.detail.mark[1]
              ELSE 0)
             + AcceptedNotional(user_id, Tail(events))

\* C30: with a daily limit configured, the notional of a user's plans that
\* the sweep sent to the broker on a day, each at the mark it was accepted
\* at, never exceeds the limit.  All plans of the model are of one day; a
\* limit of 0, which check_risk takes for no limit, is left to C10.
C30_DailyLimitHolds ==
    (daily_limit # None /\ daily_limit[1] > 0) =>
        \A r \in order_plans :
            AcceptedNotional(r.user_id, exec_events) <= daily_limit[1]

----------------------------------------------------------------------------
(***************************************************************************)
(* Claims about what a submission and a refresh may lead to.               *)
(***************************************************************************)

\* C23: when the broker's answer to a plan's submission is a returned
\* rejection, Lifecycle.submit does not make the plan submitted: the plan
\* becomes rejected, with the event of that transition.
C23_RejectionGivesRejected ==
    [][ \A w \in Sessions :
          (Returns(w, "submit") /\ sess[w].got = "declined") =>
              /\ lcStatus'[sess[w].plan] # "submitted"
              /\ lcStatus'[sess[w].plan] = "rejected"
              /\ Len(NewEvents(sess[w].plan)) = 1
              /\ NewEvents(sess[w].plan)[1].to = "rejected"
      ]_vars

\* A submit call was made for the plan: its log has the event of one.
SubmitCalled(q) ==
    \E i \in 1..Len(lcEvents[q]) : lcEvents[q][i].event \in {"submit", "submit_error"}

\* C25: a plan is submitted, partially_filled or filled only after a submit
\* call was made for it: refresh and resume do not move a plan that is
\* still created to one of these statuses.
C25_SubmittedOnlyAfterSubmit ==
    \A q \in LcPlanIds :
        lcStatus[q] \in {"submitted", "partially_filled", "filled"} => SubmitCalled(q)

\* C28: once a cancel has committed, the plan stays canceled: a submit or a
\* refresh of the same plan that read it before the cancel committed does
\* not overwrite canceled with its own status.
C28_CanceledStays ==
    [][ \A q \in LcPlanIds :
          (/\ lcStatus[q] = "canceled"
           /\ lcEvents[q][Len(lcEvents[q])].event = "cancel")
          => lcStatus'[q] = "canceled" ]_vars

----------------------------------------------------------------------------
(***************************************************************************)
(* Claim about two intakes at a time.                                      *)
(***************************************************************************)

\* C29: trade_manual calls for the same user_id and signal_ref that run at
\* the same time create at most one plan, whatever mark each of them read:
\* no two manual plans of one user and signal are created less than
\* DedupeWindow minutes apart.
C29_ConcurrentIntakesOnePlan ==
    \A r1, r2 \in order_plans :
        (/\ r1 # r2
         /\ r1.source = "manual" /\ r2.source = "manual"
         /\ r1.user_id = r2.user_id
         /\ r1.signal_ref = r2.signal_ref)
        => \/ r1.created_at - r2.created_at >= DedupeWindow
           \/ r2.created_at - r1.created_at >= DedupeWindow

============================================================================
